---- MODULE Spec2Model ----
(***************************************************************************)
(* A model of the OSDG client's tunnel protocol engine.                    *)
(*                                                                         *)
(*   Spec        the connection of src/library/tunnel_protocol.c           *)
(*               (struct _osdg_connection: receive_packet, sendMESG,       *)
(*               get_MESG_packet, send_MESG_packet, sendForward,           *)
(*               start_connection)                                         *)
(*   LongSpec    the same connection, followed until its nonce counter     *)
(*               wraps                                                     *)
(*   ClientSpec  the older client of src/unnamed/part_001                  *)
(*               (struct _osdg_client: receive_packet, sendTELL, sendMESG) *)
(*   HappySpec   the connection against a server that follows its script   *)
(*   QueueSpec   the queue of src/unnamed/part_000, one call at a time     *)
(*   ThreadSpec  the same queue shared by producers and a consumer,        *)
(*               one statement at a time                                   *)
(*   LibrarySpec osdg_init and osdg_shutdown of src/unnamed/part_000       *)
(*                                                                         *)
(* The socket layer (receive_data, send_data), the connection object       *)
(* (connection_set_result, connection_set_status, connection_handle_data,  *)
(* the buffer pool) and the event loop are declared or called in src/ but  *)
(* defined elsewhere; they are modelled from spec.md.  Struct sizes come   *)
(* from headers that are not in src/; the model uses small stand-ins.      *)
(***************************************************************************)
EXTENDS Integers, Sequences, FiniteSets, TLC

VARIABLES conn, last, hist, queue, lib, threads

vars == <<conn, last, hist, queue, lib, threads>>

---------------------------------------------------------------------------
(* Bounds of the model *)

\* bufferSize given to create() (1536 in the demo client)
BufferSize == 12
\* the nonce counter is NonceBytes digits of radix ByteRadix (8 x 256 in C)
NonceBytes == 2
ByteRadix == 2
\* sealed packets (those that consume a nonce) one connection sends
MaxSealed == 3
\* the same, where the nonce counter is to wrap
MaxSealedLong == 4

\* the elements that exist to be queued, and the puts one run makes
MaxElements == 3
MaxPuts == 4

\* the calls of osdg_init one process makes
MaxInits == 3
\* the threads that put into one queue
NumProducers == 2

NonceModulus == ByteRadix ^ NonceBytes

---------------------------------------------------------------------------
(* Sizes *)

\* sizeof(unsigned short): the length prefix
SizeofLength == 2
\* sizeof(struct packet_header): length, magic, command
SizeofPacketHeader == 8
\* sizeof(struct packetMESG): header, nonce and the box's fixed part
SizeofPacketMESG == 10
\* protobuf_c_message_get_packed_size of a ProtocolVersion
ProtocolVersionPackedSize == 1
\* sizeof(struct curvecp_vouch_outer) and sizeof(struct packetVOCH), which
\* holds the header, the cookie, the nonce and the outer box
SizeofVouchOuter == 5
SizeofPacketVOCH == 11
\* sizeof(struct certificate_data): prefixLength, prefix[11], keyLength, key[32]
SizeofCertificateData == 1 + 11 + 1 + 32

\* the sizes a length prefix declares: around every threshold of the reader
Sizes ==
    {0, 1, SizeofPacketHeader - SizeofLength,
     BufferSize - SizeofLength, BufferSize - SizeofLength + 1, BufferSize}

\* the sizes of the payloads the application sends: the largest that fits a
\* MESG packet in a send buffer, and the first that does not
DataSizes ==
    {BufferSize - SizeofPacketMESG, BufferSize - SizeofPacketMESG + 1}

---------------------------------------------------------------------------
(* Wire helpers *)

RECURSIVE ReverseDigits(_, _, _)
ReverseDigits(n, k, acc) ==
    IF k = 0 THEN acc
    ELSE ReverseDigits(n \div ByteRadix, k - 1, acc * ByteRadix + (n % ByteRadix))

\* SWAP_64: the bytes of a host integer reversed (little-endian host)
SWAP_64(n) == ReverseDigits(n, NonceBytes, 0)

\* the bytes a little-endian host stores for integer v, first byte first
RECURSIVE HostBytes(_, _)
HostBytes(v, k) ==
    IF k = 0 THEN <<>> ELSE <<v % ByteRadix>> \o HostBytes(v \div ByteRadix, k - 1)

\* a byte string read as a big-endian number
RECURSIVE BigEndian(_)
BigEndian(bs) ==
    IF bs = <<>> THEN 0
    ELSE bs[Len(bs)] + ByteRadix * BigEndian(SubSeq(bs, 1, Len(bs) - 1))

NoNonce == -1

\* the key a packet is sealed under: none, or a kind and the generation of the key
NoKey == <<"none", 0>>

\* the nonce tail of a packet as the peer reads it from the wire
NonceTail(pkt) ==
    IF pkt.nonce = NoNonce THEN NoNonce ELSE BigEndian(HostBytes(pkt.nonce, NonceBytes))

\* no certificate record
NoRecord == <<>>

\* a packet handed to the writer; cert is haveCertificate, and record, length
\* (the header's size field) and sealed (the bytes under the outer box) are
\* kept for VOCH alone
Pkt(cmd, nonce, key, mtype, cert) ==
    [cmd |-> cmd, nonce |-> nonce, key |-> key, mtype |-> mtype, cert |-> cert,
     record |-> NoRecord, length |-> 0, sealed |-> 0]

\* lines 310-313: the license key as a key-value pair, the key all zeroes
CertificateData ==
    [prefixLength |-> 11,
     prefix |-> <<"c", "e", "r", "t", "i", "f", "i", "c", "a", "t", "e">>,
     keyLength |-> 32, key |-> [i \in 1 .. 32 |-> 0]]

\* lines 326-331: the VOCH packet with certDataSize bytes of certificate
packetVOCH(nonce, key, cert, certDataSize) ==
    [Pkt("VOCH", nonce, key, "NONE", cert) EXCEPT
        !.record = IF cert THEN CertificateData ELSE NoRecord,
        !.length = SizeofPacketVOCH + certDataSize,
        !.sealed = SizeofVouchOuter + certDataSize]

---------------------------------------------------------------------------
(* Inbound frames, by what the handler reads of them *)

NoFrame ==
    [b2 |-> "NONE", decodes |-> FALSE, sig |-> FALSE, code |-> "NONE",
     magicOk |-> FALSE, cmd |-> "NONE", opens |-> FALSE, mtype |-> "NONE",
     pvMagic |-> FALSE, pvMajor |-> FALSE, pvMinor |-> FALSE, peer |-> FALSE]

\* the unencrypted forwarding envelopes: byte 2 is the message type
ForwardFrames ==
    {[NoFrame EXCEPT !.b2 = "HOLD"]}
    \cup {[NoFrame EXCEPT !.b2 = "REPLY"]}
    \cup {[NoFrame EXCEPT !.b2 = "REPLY", !.decodes = TRUE, !.sig = s] : s \in BOOLEAN}
    \cup {[NoFrame EXCEPT !.b2 = "ERROR"]}
    \cup {[NoFrame EXCEPT !.b2 = "ERROR", !.decodes = TRUE, !.code = k] :
            k \in {"FORWARD_SERVER_ERROR", "FORWARD_PEER_TIMEOUT", "OTHER"}}

\* byte 2 is neither a forwarding type nor the first byte of the magic
JunkFrames ==
    {[NoFrame EXCEPT !.b2 = "OTHER"], [NoFrame EXCEPT !.b2 = "MAGIC"]}

Magic(cmd) == [NoFrame EXCEPT !.b2 = "MAGIC", !.magicOk = TRUE, !.cmd = cmd]

MesgFrames ==
    {[Magic("MESG") EXCEPT !.opens = TRUE, !.mtype = "MSG_PROTOCOL_VERSION"]}
    \cup {[Magic("MESG") EXCEPT !.opens = TRUE, !.mtype = "MSG_PROTOCOL_VERSION",
             !.decodes = TRUE, !.pvMagic = v[1], !.pvMajor = v[2], !.pvMinor = v[3]] :
            v \in {<<TRUE, TRUE, TRUE>>, <<FALSE, TRUE, TRUE>>,
                   <<TRUE, FALSE, TRUE>>, <<TRUE, TRUE, FALSE>>}}
    \cup {[Magic("MESG") EXCEPT !.opens = TRUE, !.mtype = "MSG_PEER_REPLY",
             !.decodes = d] : d \in BOOLEAN}
    \cup {[Magic("MESG") EXCEPT !.opens = TRUE, !.mtype = "OTHER"]}

PacketFrames ==
    {Magic("WELC"), Magic("OTHER")}
    \cup {[Magic(k) EXCEPT !.opens = o] : k \in {"COOK", "REDY"}, o \in BOOLEAN}
    \cup {Magic("MESG")}
    \cup MesgFrames

Frames == ForwardFrames \cup JunkFrames \cup PacketFrames

\* the frames a body of the declared size can hold: one shorter than a packet
\* header holds no packet, a bare header no payload
FramesOfSize(size) ==
    IF size + SizeofLength < SizeofPacketHeader
    THEN ForwardFrames \cup JunkFrames
    ELSE IF size + SizeofLength = SizeofPacketHeader
    THEN ForwardFrames \cup JunkFrames \cup {Magic("OTHER")}
    ELSE Frames

---------------------------------------------------------------------------
(* The connection object and the socket layer (not in src/) *)

\* the connection after create(): nothing negotiated, nothing received
NewConnection ==
    [status |-> "closed", mode |-> "unspecified", errorKind |-> "no_error",
     nonce |-> 1, bytesLeft |-> 0, bytesReceived |-> 0, tunnelId |-> FALSE,
     serverPubkey |-> 0, tempKey |-> 0, beforenm |-> 0, serverCookie |-> 0,
     buffers |-> 0, out |-> <<>>, crypto |-> 0, reads |-> 0, statusSets |-> 0,
     peerCalls |-> 0]

\* the per-operation observations are cleared when an operation starts
Enter(c) ==
    [c EXCEPT !.out = <<>>, !.crypto = 0, !.reads = 0, !.statusSets = 0,
              !.peerCalls = 0]

Res(c, ret) == [c |-> c, ret |-> ret]

\* receive_data: pump n available bytes, honouring bytesLeft; the frame's
\* total once it is complete, 0 while it is not, -1 on a socket error
receive_data(c, n, err) ==
    IF err
    THEN Res([c EXCEPT !.reads = @ + 1, !.errorKind = "socket_error"], -1)
    ELSE LET d == [c EXCEPT !.reads = @ + 1,
                            !.bytesLeft = @ - n, !.bytesReceived = @ + n]
         IN  Res(d, IF d.bytesLeft = 0 THEN d.bytesReceived ELSE 0)

\* send_data: hand one packet to the writer
send_data(c, pkt, ok) ==
    Res([c EXCEPT !.out = Append(@, pkt)], IF ok THEN "no_error" ELSE "socket_error")

\* set_status(new): update the status and notify the status callback
connection_set_status(c, new) ==
    [c EXCEPT !.status = new, !.statusSets = @ + 1]

\* set_result(err): set the error kind if non-zero and transition to failed
connection_set_result(c, result) ==
    IF result = "no_error"
    THEN Res(c, 0)
    ELSE Res([c EXCEPT !.errorKind = result, !.status = "failed"], -1)

client_get_buffer(c) == [c EXCEPT !.buffers = @ + 1]

client_put_buffer(c) == [c EXCEPT !.buffers = @ - 1]

\* the event loop, after receive_packet returned: a negative result ends the
\* connection; a TELL sent while forwarding starts the handshake
mainloop_after_packet(c, ret) ==
    IF ret < 0 THEN [c EXCEPT !.status = "failed"]
    ELSE IF c.status = "forwarding" /\ \E i \in DOMAIN c.out : c.out[i].cmd = "TELL"
         THEN [c EXCEPT !.status = "handshaking"]
         ELSE c

\* the event loop, after start_connection returned
mainloop_after_connect(c, ret) ==
    IF ret < 0 THEN [c EXCEPT !.status = "failed"]
    ELSE IF \E i \in DOMAIN c.out : c.out[i].cmd = "FORWARD_REMOTE"
         THEN [c EXCEPT !.status = "forwarding"]
         ELSE [c EXCEPT !.status = "handshaking"]

\* the upper layer's handler of a decrypted MESG body
connection_handle_data(c, f) ==
    IF c.mode = "grid" /\ f.mtype = "MSG_PROTOCOL_VERSION"
    THEN IF ~f.decodes \/ ~f.pvMagic \/ ~f.pvMajor \/ ~f.pvMinor
         THEN Res(c, "protocol_error")
         ELSE Res(IF c.status = "handshaking"
                  THEN connection_set_status(c, "connected") ELSE c, "no_error")
    ELSE Res(c, "no_error")

---------------------------------------------------------------------------
(* src/library/tunnel_protocol.c *)

send_packet(c, pkt, ok) == send_data(c, pkt, ok)

sendTELL(c, ok) ==
    LET s == send_packet(c, Pkt("TELL", NoNonce, NoKey, "NONE", FALSE), ok)
    IN  connection_set_result(s.c, s.ret)

\* decryptMESG without the test of crypto_box_open_afternm's result
decryptMESG_unchecked(c, f) ==
    [c |-> [c EXCEPT !.crypto = @ + 1], payload |-> TRUE]

\* payload is TRUE for a box that opened, FALSE for NULL
decryptMESG(c, f) ==
    IF ~f.opens
    THEN [c |-> [c EXCEPT !.crypto = @ + 1, !.errorKind = "decryption_error"],
          payload |-> FALSE]
    ELSE [c |-> [c EXCEPT !.crypto = @ + 1], payload |-> TRUE]

\* client_get_nonce with the increment before the read (++nonce)
client_get_nonce_preincrement(c) ==
    [c |-> [c EXCEPT !.nonce = (@ + 1) % NonceModulus],
     nonce |-> SWAP_64((c.nonce + 1) % NonceModulus)]

client_get_nonce(c) ==
    [c |-> [c EXCEPT !.nonce = (@ + 1) % NonceModulus], nonce |-> SWAP_64(c.nonce)]

\* get_MESG_packet that takes the buffer before it tests the size
get_MESG_packet_takes_first(c, dataSize) ==
    LET b == client_get_buffer(c)
    IN  IF SizeofPacketMESG + dataSize > BufferSize
        THEN [c |-> [b EXCEPT !.errorKind = "buffer_exceeded"], mesg |-> FALSE]
        ELSE [c |-> b, mesg |-> TRUE]

get_MESG_packet(c, dataSize) ==
    IF SizeofPacketMESG + dataSize > BufferSize
    THEN [c |-> [c EXCEPT !.errorKind = "buffer_exceeded"], mesg |-> FALSE]
    ELSE [c |-> client_get_buffer(c), mesg |-> TRUE]

\* send_MESG_packet reading the counter without advancing it
send_MESG_packet_peek(c, mtype, ok, cf) ==
    LET b == [c EXCEPT !.crypto = @ + 1]
    IN  IF cf = 1
        THEN Res(client_put_buffer(b), "crypto_core_error")
        ELSE LET s == send_packet(b, Pkt("MESG", SWAP_64(c.nonce),
                                         <<"afternm", b.beforenm>>, mtype, FALSE), ok)
             IN  Res(client_put_buffer(s.c), s.ret)

\* cf = 1: crypto_box_afternm fails
send_MESG_packet(c, mtype, ok, cf) ==
    LET n == client_get_nonce(c)
        b == [n.c EXCEPT !.crypto = @ + 1]
    IN  IF cf = 1
        THEN Res(client_put_buffer(b), "crypto_core_error")
        ELSE LET s == send_packet(b, Pkt("MESG", n.nonce, <<"afternm", b.beforenm>>, mtype, FALSE), ok)
             IN  Res(client_put_buffer(s.c), s.ret)

sendMESG(c, dataType, packedSize, ok, cf) ==
    LET g == get_MESG_packet(c, packedSize + 1)
    IN  IF ~g.mesg THEN Res(g.c, "buffer_exceeded")
        ELSE send_MESG_packet(g.c, dataType, ok, cf)

\* sendForward that keeps the tunnel id
sendForward_keeps_id(c, ok) ==
    LET b == client_get_buffer(c)
        s == send_data(b, Pkt("FORWARD_REMOTE", NoNonce, NoKey, "MSG_FORWARD_REMOTE", FALSE), ok)
    IN  connection_set_result(s.c, s.ret)

sendForward(c, ok) ==
    LET b == client_get_buffer(c)
        d == [b EXCEPT !.tunnelId = FALSE]
        s == send_data(d, Pkt("FORWARD_REMOTE", NoNonce, NoKey, "MSG_FORWARD_REMOTE", FALSE), ok)
    IN  connection_set_result(s.c, s.ret)

\* start_connection with its test inverted
start_connection_inverted(c, ok) ==
    IF c.tunnelId THEN sendTELL(c, ok) ELSE sendForward(c, ok)

start_connection(c, ok) ==
    IF c.tunnelId THEN sendForward(c, ok) ELSE sendTELL(c, ok)

\* MSG_FORWARD_REPLY with the result of strcmp read as a truth value
receive_FORWARD_REPLY_inverted(c, f, ok) ==
    IF ~f.decodes THEN Res([c EXCEPT !.errorKind = "protocol_error"], -1)
    ELSE IF f.sig THEN Res(c, -1)
    ELSE sendTELL(c, ok)

\* MSG_FORWARD_REPLY accepted without a TELL
receive_FORWARD_REPLY_silent(c, f, ok) ==
    IF ~f.decodes THEN Res([c EXCEPT !.errorKind = "protocol_error"], -1)
    ELSE IF ~f.sig THEN Res(c, -1)
    ELSE Res(c, 0)

\* lines 117-140: MSG_FORWARD_REPLY
receive_FORWARD_REPLY(c, f, ok) ==
    IF ~f.decodes THEN Res([c EXCEPT !.errorKind = "protocol_error"], -1)
    ELSE IF ~f.sig THEN Res(c, -1)
    ELSE sendTELL(c, ok)

\* MSG_FORWARD_ERROR with the break of its first case missing
receive_FORWARD_ERROR_fallthrough(c, f) ==
    IF ~f.decodes THEN Res([c EXCEPT !.errorKind = "protocol_error"], -1)
    ELSE Res([c EXCEPT !.errorKind =
                CASE f.code = "FORWARD_SERVER_ERROR" -> "peer_timeout"
                  [] f.code = "FORWARD_PEER_TIMEOUT" -> "peer_timeout"
                  [] OTHER -> "protocol_error"], -1)

\* lines 145-176: MSG_FORWARD_ERROR
receive_FORWARD_ERROR(c, f) ==
    IF ~f.decodes THEN Res([c EXCEPT !.errorKind = "protocol_error"], -1)
    ELSE Res([c EXCEPT !.errorKind =
                CASE f.code = "FORWARD_SERVER_ERROR" -> "server_error"
                  [] f.code = "FORWARD_PEER_TIMEOUT" -> "peer_timeout"
                  [] OTHER -> "protocol_error"], -1)

\* lines 195-232: WELC; cf = 1: crypto_box fails
receive_WELC(c, ok, cf) ==
    LET k == [c EXCEPT !.serverPubkey = 1, !.tempKey = @ + 1, !.crypto = @ + 1]
        n == client_get_nonce(k)
        b == [n.c EXCEPT !.crypto = @ + 1]
    IN  IF cf = 1 THEN Res([b EXCEPT !.errorKind = "crypto_core_error"], -1)
        ELSE LET s == send_packet(b, Pkt("HELO", n.nonce, <<"box", b.tempKey>>,
                                         "NONE", FALSE), ok)
             IN  connection_set_result(s.c, s.ret)

\* the license key reported in every mode
reports_certificate_always(c) == TRUE

\* line 295: the license key is reported to the grid, not to a peer
reports_certificate(c) == c.mode = "grid"

\* lines 233-344: COOK; cf = 1: crypto_box_beforenm fails, 2: the inner
\* crypto_box, 3: the outer crypto_box_afternm
receive_COOK(c, f, ok, cf) ==
    LET o == [c EXCEPT !.crypto = @ + 1]
    IN  IF ~f.opens THEN Res([o EXCEPT !.errorKind = "decryption_error"], -1)
        ELSE
        LET k == [o EXCEPT !.serverCookie = @ + 1, !.crypto = @ + 1]
        IN  IF cf = 1 THEN Res([k EXCEPT !.errorKind = "crypto_core_error"], -1)
            ELSE
            LET v == [client_get_buffer([k EXCEPT !.beforenm = @ + 1])
                        EXCEPT !.crypto = @ + 1]
            IN  IF cf = 2
                THEN Res([client_put_buffer(v) EXCEPT
                            !.errorKind = "crypto_core_error"], -1)
                ELSE
                LET cert == reports_certificate(v)
                    certDataSize == IF cert THEN SizeofCertificateData ELSE 0
                    n == client_get_nonce(v)
                    b == [n.c EXCEPT !.crypto = @ + 1]
                IN  IF cf = 3
                    THEN Res([client_put_buffer(b) EXCEPT
                                !.errorKind = "crypto_core_error"], -1)
                    ELSE
                    LET s == send_packet(b, packetVOCH(n.nonce,
                                 <<"afternm", b.beforenm>>, cert, certDataSize), ok)
                    IN  connection_set_result(client_put_buffer(s.c), s.ret)

\* REDY without the test of the mode: the version handshake in every mode
receive_REDY_any_mode(c, f, ok, cf) ==
    LET d == decryptMESG(c, f)
    IN  IF ~d.payload THEN Res(d.c, -1)
        ELSE LET s == sendMESG(d.c, "MSG_PROTOCOL_VERSION",
                               ProtocolVersionPackedSize, ok, cf)
             IN  connection_set_result(s.c, s.ret)

\* REDY that ends the handshake in every mode
receive_REDY_done(c, f, ok, cf) ==
    LET d == decryptMESG(c, f)
    IN  IF ~d.payload THEN Res(d.c, -1)
        ELSE Res(connection_set_status(d.c, "connected"), 0)

\* lines 345-385: REDY
receive_REDY(c, f, ok, cf) ==
    LET d == decryptMESG(c, f)
    IN  IF ~d.payload THEN Res(d.c, -1)
        ELSE IF d.c.mode # "grid"
        THEN Res(IF d.c.mode = "peer"
                 THEN connection_set_status(d.c, "connected") ELSE d.c, 0)
        ELSE LET s == sendMESG(d.c, "MSG_PROTOCOL_VERSION",
                               ProtocolVersionPackedSize, ok, cf)
             IN  connection_set_result(s.c, s.ret)

\* lines 386-396: MESG
receive_MESG(c, f) ==
    LET d == decryptMESG(c, f)
    IN  IF ~d.payload THEN Res(d.c, -1)
        ELSE LET h == connection_handle_data(d.c, f)
             IN  connection_set_result(h.c, h.ret)

\* receive_packet with an unknown command rejected like a wrong magic
receive_frame_strict(c, ret, f, ok, cf) ==
    IF f.b2 = "HOLD" THEN Res(c, 0)
    ELSE IF f.b2 = "REPLY" THEN receive_FORWARD_REPLY(c, f, ok)
    ELSE IF f.b2 = "ERROR" THEN receive_FORWARD_ERROR(c, f)
    ELSE IF ret < SizeofPacketHeader
    THEN Res([c EXCEPT !.errorKind = "protocol_error"], -1)
    ELSE IF ~f.magicOk
    THEN Res([c EXCEPT !.errorKind = "protocol_error"], -1)
    ELSE IF f.cmd = "WELC" THEN receive_WELC(c, ok, cf)
    ELSE IF f.cmd = "COOK" THEN receive_COOK(c, f, ok, cf)
    ELSE IF f.cmd = "REDY" THEN receive_REDY(c, f, ok, cf)
    ELSE IF f.cmd = "MESG" THEN receive_MESG(c, f)
    ELSE Res([c EXCEPT !.errorKind = "protocol_error"], -1)

\* receive_packet without the test for MSG_FORWARD_HOLD: the envelope meets
\* the header checks
receive_frame_no_hold(c, ret, f, ok, cf) ==
    IF f.b2 = "REPLY" THEN receive_FORWARD_REPLY(c, f, ok)
    ELSE IF f.b2 = "ERROR" THEN receive_FORWARD_ERROR(c, f)
    ELSE IF ret < SizeofPacketHeader
    THEN Res([c EXCEPT !.errorKind = "protocol_error"], -1)
    ELSE IF ~f.magicOk
    THEN Res([c EXCEPT !.errorKind = "protocol_error"], -1)
    ELSE IF f.cmd = "WELC" THEN receive_WELC(c, ok, cf)
    ELSE IF f.cmd = "COOK" THEN receive_COOK(c, f, ok, cf)
    ELSE IF f.cmd = "REDY" THEN receive_REDY(c, f, ok, cf)
    ELSE IF f.cmd = "MESG" THEN receive_MESG(c, f)
    ELSE Res(c, 0)

\* lines 107-403: a complete frame of ret bytes is in the receive buffer
receive_frame(c, ret, f, ok, cf) ==
    IF f.b2 = "HOLD" THEN Res(c, 0)
    ELSE IF f.b2 = "REPLY" THEN receive_FORWARD_REPLY(c, f, ok)
    ELSE IF f.b2 = "ERROR" THEN receive_FORWARD_ERROR(c, f)
    ELSE IF ret < SizeofPacketHeader
    THEN Res([c EXCEPT !.errorKind = "protocol_error"], -1)
    ELSE IF ~f.magicOk
    THEN Res([c EXCEPT !.errorKind = "protocol_error"], -1)
    ELSE IF f.cmd = "WELC" THEN receive_WELC(c, ok, cf)
    ELSE IF f.cmd = "COOK" THEN receive_COOK(c, f, ok, cf)
    ELSE IF f.cmd = "REDY" THEN receive_REDY(c, f, ok, cf)
    ELSE IF f.cmd = "MESG" THEN receive_MESG(c, f)
    ELSE Res(c, 0)

\* what one call of receive_packet meets: the bytes the two receive_data
\* calls find (n1, n2) or their failure (err1, err2), the size the length
\* prefix declares, and the frame that size bytes complete
Input(n1, err1, size, n2, err2, f, ok, cf) ==
    [n1 |-> n1, err1 |-> err1, size |-> size, n2 |-> n2, err2 |-> err2,
     f |-> f, ok |-> ok, cf |-> cf]

\* the start of a packet without the reset of bytesReceived
begin_packet_stale(c) ==
    IF c.bytesLeft = 0 THEN [c EXCEPT !.bytesLeft = SizeofLength] ELSE c

\* lines 78-83: every packet is prefixed with its length, read it first
begin_packet(c) ==
    IF c.bytesLeft = 0
    THEN [c EXCEPT !.bytesReceived = 0, !.bytesLeft = SizeofLength]
    ELSE c

\* the size test without the length prefix
exceeds_without_prefix(size) == size > BufferSize

\* line 92: the declared size does not fit the receive buffer
exceeds_buffer(size) == size + SizeofLength > BufferSize

\* lines 71-404
receive_packet(c, in) ==
    LET a == begin_packet(c)
        r1 == receive_data(a, in.n1, in.err1)
    IN  IF r1.ret = SizeofLength
        THEN IF exceeds_buffer(in.size)
             THEN Res([r1.c EXCEPT !.errorKind = "buffer_exceeded"], -1)
             ELSE LET r2 == receive_data([r1.c EXCEPT !.bytesLeft = in.size],
                                         in.n2, in.err2)
                  IN  IF r2.ret <= 0 THEN r2
                      ELSE receive_frame(r2.c, r2.ret, in.f, in.ok, in.cf)
        ELSE IF r1.ret <= 0 THEN r1
        ELSE receive_frame(r1.c, r1.ret, in.f, in.ok, in.cf)

\* send(conn, bytes): an application payload of size bytes as one MESG
connection_send(c, size, ok, cf) ==
    LET g == get_MESG_packet(c, size)
    IN  IF ~g.mesg THEN Res(g.c, -1)
        ELSE LET s == send_MESG_packet(g.c, "DATA", ok, cf)
             IN  connection_set_result(s.c, s.ret)

---------------------------------------------------------------------------
(* src/unnamed/part_001: the older client (struct _osdg_client) *)

\* send_data of the older socket layer returns an int: 0, or -1 with the
\* error kind set
client_send_data(c, pkt, ok) ==
    IF ok THEN Res([c EXCEPT !.out = Append(@, pkt)], 0)
    ELSE Res([c EXCEPT !.out = Append(@, pkt), !.errorKind = "socket_error"], -1)

client_send_packet(c, pkt, ok) == client_send_data(c, pkt, ok)

client_sendTELL(c, ok) ==
    client_send_packet(c, Pkt("TELL", NoNonce, NoKey, "NONE", FALSE), ok)

\* cf = 1: crypto_box_afternm fails
client_sendMESG(c, dataType, packedSize, ok, cf) ==
    IF SizeofPacketMESG + packedSize > BufferSize
    THEN Res([c EXCEPT !.errorKind = "buffer_exceeded"], -1)
    ELSE LET n == client_get_nonce(client_get_buffer(c))
             b == [n.c EXCEPT !.crypto = @ + 1]
         IN  IF cf = 1
             THEN Res(client_put_buffer([b EXCEPT !.errorKind = "encryption_error"]), -1)
             ELSE LET s == client_send_packet(b, Pkt("MESG", n.nonce,
                                 <<"afternm", b.beforenm>>, dataType, FALSE), ok)
                  IN  Res(client_put_buffer(s.c), s.ret)

\* lines 112-145: WELC; cf = 1: crypto_box fails
client_receive_WELC(c, ok, cf) ==
    LET k == [c EXCEPT !.serverPubkey = 1, !.tempKey = @ + 1, !.crypto = @ + 1]
        n == client_get_nonce(k)
        b == [n.c EXCEPT !.crypto = @ + 1]
    IN  IF cf = 1 THEN Res([b EXCEPT !.errorKind = "encryption_error"], -1)
        ELSE client_send_packet(b, Pkt("HELO", n.nonce, <<"box", b.tempKey>>,
                                       "NONE", FALSE), ok)

\* lines 146-226: COOK; cf = 1: crypto_box_beforenm fails, 2: the inner
\* crypto_box, 3: the outer crypto_box_afternm
client_receive_COOK(c, f, ok, cf) ==
    LET o == [c EXCEPT !.crypto = @ + 1]
    IN  IF ~f.opens THEN Res([o EXCEPT !.errorKind = "decryption_error"], -1)
        ELSE
        LET k == [o EXCEPT !.serverCookie = @ + 1, !.crypto = @ + 1]
        IN  IF cf = 1 THEN Res([k EXCEPT !.errorKind = "encryption_error"], -1)
            ELSE
            LET v == [k EXCEPT !.beforenm = @ + 1, !.crypto = @ + 1]
            IN  IF cf = 2 THEN Res([v EXCEPT !.errorKind = "encryption_error"], -1)
                ELSE
                LET n == client_get_nonce(v)
                    b == [n.c EXCEPT !.crypto = @ + 1]
                IN  IF cf = 3
                    THEN Res([b EXCEPT !.errorKind = "encryption_error"], -1)
                    ELSE client_send_packet(b, packetVOCH(n.nonce,
                                 <<"afternm", b.beforenm>>, TRUE,
                                 SizeofCertificateData), ok)

\* lines 227-261: REDY
client_receive_REDY(c, f, ok, cf) ==
    LET d == decryptMESG(c, f)
    IN  IF ~d.payload THEN Res(d.c, -1)
        ELSE client_sendMESG(d.c, "MSG_PROTOCOL_VERSION",
                             ProtocolVersionPackedSize, ok, cf)

\* lines 272-306: MSG_PROTOCOL_VERSION; ret still holds what receive_data
\* returned unless a branch assigns it
client_receive_PROTOCOL_VERSION(c, f, ret) ==
    IF ~f.decodes THEN Res([c EXCEPT !.errorKind = "protocol_error"], -1)
    ELSE LET r == IF ~f.pvMagic THEN ret
                  ELSE IF ~f.pvMajor \/ ~f.pvMinor THEN -1
                  ELSE 0
         IN  IF r # 0 THEN Res([c EXCEPT !.errorKind = "protocol_error"], r)
             ELSE Res(c, 0)

\* lines 262-338: MESG; the second branch assigns MSG_PEER_REPLY to dataType
\* and so takes every type that is not MSG_PROTOCOL_VERSION
client_receive_MESG(c, f, ret) ==
    LET d == decryptMESG(c, f)
    IN  IF ~d.payload THEN Res(d.c, -1)
        ELSE IF f.mtype = "MSG_PROTOCOL_VERSION"
        THEN client_receive_PROTOCOL_VERSION(d.c, f, ret)
        ELSE IF ~f.decodes THEN Res(d.c, 0)
        ELSE Res(IF f.peer THEN [d.c EXCEPT !.peerCalls = @ + 1] ELSE d.c, 0)

\* lines 102-344: a complete frame of ret bytes is in the receive buffer
client_receive_frame(c, ret, f, ok, cf) ==
    IF ~f.magicOk THEN Res([c EXCEPT !.errorKind = "protocol_error"], -1)
    ELSE IF f.cmd = "WELC" THEN client_receive_WELC(c, ok, cf)
    ELSE IF f.cmd = "COOK" THEN client_receive_COOK(c, f, ok, cf)
    ELSE IF f.cmd = "REDY" THEN client_receive_REDY(c, f, ok, cf)
    ELSE IF f.cmd = "MESG" THEN client_receive_MESG(c, f, ret)
    ELSE Res(c, 0)

\* lines 67-345; the reader (lines 73-100) is the one of tunnel_protocol.c
client_receive_packet(c, in) ==
    LET a == begin_packet(c)
        r1 == receive_data(a, in.n1, in.err1)
    IN  IF r1.ret = SizeofLength
        THEN IF exceeds_buffer(in.size)
             THEN Res([r1.c EXCEPT !.errorKind = "buffer_exceeded"], -1)
             ELSE LET r2 == receive_data([r1.c EXCEPT !.bytesLeft = in.size],
                                         in.n2, in.err2)
                  IN  IF r2.ret <= 0 THEN r2
                      ELSE client_receive_frame(r2.c, r2.ret, in.f, in.ok, in.cf)
        ELSE IF r1.ret <= 0 THEN r1
        ELSE client_receive_frame(r1.c, r1.ret, in.f, in.ok, in.cf)

---------------------------------------------------------------------------
(* The inputs one call of receive_packet can meet in a given state *)

NoInput == Input(0, FALSE, 0, 0, FALSE, NoFrame, TRUE, 0)

\* how the sends and the sealing primitives of a frame's handler can end
Outcomes(f) ==
    {<<TRUE, 0>>}
    \cup (IF f.b2 = "REPLY" /\ f.decodes /\ f.sig THEN {<<FALSE, 0>>} ELSE {})
    \cup (IF f.magicOk /\ f.cmd = "WELC" THEN {<<FALSE, 0>>, <<TRUE, 1>>} ELSE {})
    \cup (IF f.magicOk /\ f.cmd = "COOK" /\ f.opens
          THEN {<<FALSE, 0>>, <<TRUE, 1>>, <<TRUE, 2>>, <<TRUE, 3>>} ELSE {})
    \cup (IF f.magicOk /\ f.cmd = "REDY" /\ f.opens
          THEN {<<FALSE, 0>>, <<TRUE, 1>>} ELSE {})

FrameInputsOf(base, frames) ==
    UNION {{[base EXCEPT !.f = f, !.ok = o[1], !.cf = o[2]] : o \in Outcomes(f)} :
             f \in frames}

Wanted(c) == IF c.bytesLeft = 0 THEN SizeofLength ELSE c.bytesLeft

InLengthPhase(c) == c.bytesLeft = 0 \/ c.bytesReceived < SizeofLength

\* the frames the older client can meet: it knows no forwarding envelopes,
\* and a body that ends with the header holds no payload
ClientMesgFrames ==
    {[Magic("MESG") EXCEPT !.opens = TRUE, !.mtype = t, !.decodes = TRUE, !.peer = p] :
       t \in {"MSG_PEER_REPLY", "OTHER"}, p \in BOOLEAN}

ClientFramesOfSize(size) ==
    IF size + SizeofLength <= SizeofPacketHeader
    THEN {[NoFrame EXCEPT !.b2 = "OTHER"], Magic("OTHER")}
    ELSE {[NoFrame EXCEPT !.b2 = "OTHER"]} \cup PacketFrames \cup ClientMesgFrames

\* the frames a body of that size can hold, for the connection of
\* tunnel_protocol.c or for the older client
FramesFor(reader, size) ==
    IF reader = "client" THEN ClientFramesOfSize(size) ELSE FramesOfSize(size)

BodyInputs(base, reader) ==
    IF base.size + SizeofLength > BufferSize THEN {base}
    ELSE {[base EXCEPT !.err2 = TRUE]}
         \cup {[base EXCEPT !.n2 = n] : n \in 0 .. (base.size - 1)}
         \cup FrameInputsOf([base EXCEPT !.n2 = base.size],
                            FramesFor(reader, base.size))

InputsWith(c, reader) ==
    {[NoInput EXCEPT !.err1 = TRUE]}
    \cup {[NoInput EXCEPT !.n1 = n] : n \in 0 .. (Wanted(c) - 1)}
    \cup (IF InLengthPhase(c)
          THEN UNION {BodyInputs([NoInput EXCEPT !.n1 = Wanted(c), !.size = z],
                                 reader) : z \in Sizes}
          ELSE FrameInputsOf([NoInput EXCEPT !.n1 = Wanted(c)],
                             FramesFor(reader,
                                 c.bytesReceived + c.bytesLeft - SizeofLength)))

Inputs(c) == InputsWith(c, "connection")

ClientInputs(c) == InputsWith(c, "client")

---------------------------------------------------------------------------
(* The intrusive queue: src/unnamed/part_000 *)

\* addresses: the queue's own head slot, the elements, and NULL; next is the
\* first field of an element and head the first field of the queue, so the
\* address of the head slot serves as an element whose next is head
HeadSlot == 0
Null == -1
Elements == 1 .. MaxElements

\* the queue after initialisation: no head, the tail at the head slot; put
\* and got list the elements handed to queue_put and returned by queue_get
EmptyQueue ==
    [next |-> [a \in {HeadSlot} \cup Elements |-> Null], tail |-> HeadSlot,
     put |-> <<>>, got |-> <<>>, op |-> "init", ret |-> Null]

\* queue_put_nolock: the element ends the list, the last next slot takes it,
\* then the tail moves to it
link_element(q, e) ==
    [q EXCEPT !.next = [[@ EXCEPT ![e] = Null] EXCEPT ![q.tail] = e]]

move_tail(q, e) == [q EXCEPT !.tail = e]

queue_put_nolock(q, e) == move_tail(link_element(q, e), e)

\* the put is done
put_done(q, e) == [q EXCEPT !.put = Append(@, e), !.op = "put", !.ret = Null]

queue_put(q, e) == put_done(queue_put_nolock(q, e), e)

\* lines 97-98: if (e) q->head = e->next
advance_head(q, e) ==
    IF e # Null THEN [q EXCEPT !.next = [@ EXCEPT ![HeadSlot] = q.next[e]]] ELSE q

\* lines 99-100: if (q->tail == e) q->tail = &q->head
reset_tail(q, e) == IF q.tail = e THEN [q EXCEPT !.tail = HeadSlot] ELSE q

\* line 104: return e
returned(q, e) ==
    [q EXCEPT !.got = IF e # Null THEN Append(@, e) ELSE @, !.op = "get", !.ret = e]

\* queue_get without the reset of the tail
queue_get_no_reset(q) ==
    LET e == q.next[HeadSlot]
    IN  returned(advance_head(q, e), e)

queue_get(q) ==
    LET e == q.next[HeadSlot]
    IN  returned(reset_tail(advance_head(q, e), e), e)

\* the elements put and not yet returned
Queued(q) == {q.put[i] : i \in (Len(q.got) + 1) .. Len(q.put)}

\* a thread puts an element that is not in the queue
QueuePut ==
    /\ Len(queue.put) < MaxPuts
    /\ \E e \in Elements \ Queued(queue) : queue' = queue_put(queue, e)
    /\ UNCHANGED <<conn, last, hist, lib, threads>>

\* a thread takes the next element
QueueGet ==
    /\ queue' = queue_get(queue)
    /\ UNCHANGED <<conn, last, hist, lib, threads>>

QueueNext ==
    \/ QueuePut
    \/ QueueGet

---------------------------------------------------------------------------
(* Process-wide setup and teardown: src/unnamed/part_000 *)

\* the build's platform: WSAStartup exists and WSACleanup acts under _WIN32
Platforms == {"posix", "win32"}

\* what the process holds initialised, counted, and what the last call of
\* osdg_init or osdg_shutdown met and returned; eventInits counts the calls
\* of mainloop_events_init, from is what was held when the call began
Held(l) == [wsa |-> l.wsa, events |-> l.events, mainloop |-> l.mainloop,
            eventInits |-> l.eventInits]

NewLibrary(platform) ==
    [platform |-> platform, sodium |-> 0, wsa |-> 0, events |-> 0,
     mainloop |-> 0, eventInits |-> 0, inits |-> 0, op |-> "none",
     ret |-> "none", sodiumOk |-> TRUE, wsaOk |-> TRUE, loopOk |-> TRUE,
     from |-> [wsa |-> 0, events |-> 0, mainloop |-> 0, eventInits |-> 0]]

\* sodium_init: -1 on failure; the library stays initialised once it is
sodium_init(l, ok) ==
    IF ok THEN Res([l EXCEPT !.sodium = 1], 0) ELSE Res(l, -1)

\* WSAStartup: zero on success
WSAStartup(l, ok) ==
    IF ok THEN Res([l EXCEPT !.wsa = @ + 1], 0) ELSE Res(l, 1)

\* WSACleanup: the empty inline function unless _WIN32
WSACleanup(l) ==
    IF l.platform = "win32" THEN [l EXCEPT !.wsa = @ - 1] ELSE l

mainloop_events_init(l) ==
    [l EXCEPT !.events = @ + 1, !.eventInits = @ + 1]

mainloop_events_shutdown(l) == [l EXCEPT !.events = @ - 1]

\* mainloop_init: zero on success, nothing held on failure
mainloop_init(l, ok) ==
    IF ok THEN Res([l EXCEPT !.mainloop = @ + 1], 0) ELSE Res(l, -1)

mainloop_shutdown(l) == [l EXCEPT !.mainloop = @ - 1]

\* osdg_init that returns on a failed mainloop_init without undoing
osdg_init_no_undo(l, sodiumOk, wsaOk, loopOk) ==
    LET s == sodium_init(l, sodiumOk)
        w == IF l.platform = "win32" THEN WSAStartup(s.c, wsaOk) ELSE Res(s.c, 0)
        m == mainloop_init(mainloop_events_init(w.c), loopOk)
    IN  IF s.ret = -1 THEN Res(s.c, "crypto_core_error")
        ELSE IF w.ret # 0 THEN Res(w.c, "socket_error")
        ELSE IF m.ret = 0 THEN Res(m.c, "no_error")
        ELSE Res(m.c, "system_error")

osdg_init(l, sodiumOk, wsaOk, loopOk) ==
    LET s == sodium_init(l, sodiumOk)
        w == IF l.platform = "win32" THEN WSAStartup(s.c, wsaOk) ELSE Res(s.c, 0)
        m == mainloop_init(mainloop_events_init(w.c), loopOk)
    IN  IF s.ret = -1 THEN Res(s.c, "crypto_core_error")
        ELSE IF w.ret # 0 THEN Res(w.c, "socket_error")
        ELSE IF m.ret = 0 THEN Res(m.c, "no_error")
        ELSE Res(WSACleanup(mainloop_events_shutdown(m.c)), "system_error")

osdg_shutdown(l) ==
    WSACleanup(mainloop_events_shutdown(mainloop_shutdown(l)))

\* the outcomes WSAStartup can have: it is not compiled unless _WIN32
StartupOutcomes(l) == IF l.platform = "win32" THEN BOOLEAN ELSE {TRUE}

\* the application initialises the library
OsdgInit ==
    /\ lib.inits < MaxInits
    /\ \E sodiumOk \in BOOLEAN, wsaOk \in StartupOutcomes(lib), loopOk \in BOOLEAN :
         LET r == osdg_init(lib, sodiumOk, wsaOk, loopOk)
         IN  lib' = [r.c EXCEPT !.inits = @ + 1, !.op = "osdg_init",
                                !.ret = r.ret, !.sodiumOk = sodiumOk,
                                !.wsaOk = wsaOk, !.loopOk = loopOk,
                                !.from = Held(lib)]
    /\ UNCHANGED <<conn, last, hist, queue, threads>>

\* the application shuts down a library it initialised
OsdgShutdown ==
    /\ lib.mainloop > 0
    /\ lib' = [osdg_shutdown(lib) EXCEPT !.op = "osdg_shutdown", !.ret = "none",
                                         !.from = Held(lib)]
    /\ UNCHANGED <<conn, last, hist, queue, threads>>

LibraryNext ==
    \/ OsdgInit
    \/ OsdgShutdown

---------------------------------------------------------------------------
(* The threads that share a queue: src/unnamed/part_000 *)

Consumer == 0
Producers == 1 .. NumProducers
Threads == {Consumer} \cup Producers

\* the owner of a mutex that nobody holds
NoThread == -1

\* each thread's position in queue_put or queue_get, the element it passes
\* or has read, the owner of q->lock, and the calls of queue_put as
\* <<producer, element>> in call order
IdleThreads ==
    [pc |-> [t \in Threads |-> "idle"], e |-> [t \in Threads |-> Null],
     owner |-> NoThread, calls |-> <<>>]

\* pthread_mutex_lock that excludes nobody
may_lock_any(th) == TRUE

\* lines 85, 94: pthread_mutex_lock returns once no thread holds the mutex
may_lock(th) == th.owner = NoThread

At(th, t, pc) == [th EXCEPT !.pc = [@ EXCEPT ![t] = pc]]

\* the element the next call of queue_put passes: one no call has passed
Fresh(th) == Len(th.calls) + 1

\* a producer calls queue_put with an element of its own
PutCall ==
    /\ \E p \in Producers, e \in Elements \cap {Fresh(threads)} :
         /\ threads.pc[p] = "idle"
         /\ threads' = [At(threads, p, "lock") EXCEPT
                           !.e = [@ EXCEPT ![p] = e],
                           !.calls = Append(@, <<p, e>>)]
    /\ UNCHANGED <<conn, last, hist, queue, lib>>

\* the consumer calls queue_get
GetCall ==
    /\ threads.pc[Consumer] = "idle"
    /\ threads' = At(threads, Consumer, "lock")
    /\ UNCHANGED <<conn, last, hist, queue, lib>>

\* lines 85, 94: pthread_mutex_lock
Acquire ==
    /\ \E t \in Threads :
         /\ threads.pc[t] = "lock"
         /\ may_lock(threads)
         /\ threads' = [At(threads, t, "first") EXCEPT !.owner = t]
    /\ UNCHANGED <<conn, last, hist, queue, lib>>

\* line 86: queue_put_nolock links the element
PutLink ==
    /\ \E p \in Producers :
         /\ threads.pc[p] = "first"
         /\ queue' = link_element(queue, threads.e[p])
         /\ threads' = At(threads, p, "second")
    /\ UNCHANGED <<conn, last, hist, lib>>

\* line 86: queue_put_nolock moves the tail
PutTail ==
    /\ \E p \in Producers :
         /\ threads.pc[p] = "second"
         /\ queue' = put_done(move_tail(queue, threads.e[p]), threads.e[p])
         /\ threads' = At(threads, p, "unlock")
    /\ UNCHANGED <<conn, last, hist, lib>>

\* line 96: e = q->head
GetRead ==
    /\ threads.pc[Consumer] = "first"
    /\ threads' = [At(threads, Consumer, "second") EXCEPT
                      !.e = [@ EXCEPT ![Consumer] = queue.next[HeadSlot]]]
    /\ UNCHANGED <<conn, last, hist, queue, lib>>

\* lines 97-98
GetAdvance ==
    /\ threads.pc[Consumer] = "second"
    /\ queue' = advance_head(queue, threads.e[Consumer])
    /\ threads' = At(threads, Consumer, "third")
    /\ UNCHANGED <<conn, last, hist, lib>>

\* lines 99-100
GetReset ==
    /\ threads.pc[Consumer] = "third"
    /\ queue' = reset_tail(queue, threads.e[Consumer])
    /\ threads' = At(threads, Consumer, "unlock")
    /\ UNCHANGED <<conn, last, hist, lib>>

\* lines 87, 102-104: pthread_mutex_unlock, and queue_get returns e
Release ==
    /\ \E t \in Threads :
         /\ threads.pc[t] = "unlock"
         /\ threads' = [At(threads, t, "idle") EXCEPT
                           !.owner = NoThread, !.e = [@ EXCEPT ![t] = Null]]
         /\ queue' = IF t = Consumer THEN returned(queue, threads.e[t]) ELSE queue
    /\ UNCHANGED <<conn, last, hist, lib>>

ThreadNext ==
    \/ PutCall
    \/ GetCall
    \/ Acquire
    \/ PutLink
    \/ PutTail
    \/ GetRead
    \/ GetAdvance
    \/ GetReset
    \/ Release

---------------------------------------------------------------------------
(* The connection's life *)

Sealed(pkt) == pkt.nonce # NoNonce

\* the history of a connection: the sealed packets it handed to send_data
\* (those that carry a nonce), in send order; a scripted run also logs every
\* packet sent and every frame handled
NoHistory == [sealed |-> <<>>, sent |-> <<>>, received |-> <<>>]

Record(h, out) == [h EXCEPT !.sealed = @ \o SelectSeq(out, Sealed)]

\* what the last operation was, the status it started from, what it met and
\* what it returned; size is the size the length prefix declared when the
\* call read it
NoSize == -1

Last(op, from, ret, size, f, ok, cf) ==
    [op |-> op, from |-> from, ret |-> ret, size |-> size, f |-> f,
     ok |-> ok, cf |-> cf]

DeclaredSize(c, in) ==
    IF InLengthPhase(c) /\ in.n1 = Wanted(c) /\ ~in.err1 THEN in.size ELSE NoSize

Init ==
    /\ conn = NewConnection
    /\ last = Last("create", "closed", 0, NoSize, NoFrame, TRUE, 0)
    /\ hist = NoHistory
    /\ queue = EmptyQueue
    /\ lib = NewLibrary("posix")
    /\ threads = IdleThreads

Open == conn.status \in {"forwarding", "handshaking", "connected"}

\* connect_to_grid(conn, endpoints)
ConnectToGrid ==
    /\ last.op = "create"
    /\ conn' = [Enter(conn) EXCEPT !.mode = "grid", !.status = "connecting"]
    /\ last' = Last("connect", conn.status, 0, NoSize, NoFrame, TRUE, 0)
    /\ UNCHANGED <<hist, queue, lib, threads>>

\* connect_to_peer(conn, tunnelId)
ConnectToPeer ==
    /\ last.op = "create"
    /\ conn' = [Enter(conn) EXCEPT !.mode = "peer", !.tunnelId = TRUE,
                                   !.status = "connecting"]
    /\ last' = Last("connect", conn.status, 0, NoSize, NoFrame, TRUE, 0)
    /\ UNCHANGED <<hist, queue, lib, threads>>

\* the socket became writable
StartConnection ==
    /\ conn.status = "connecting"
    /\ \E ok \in BOOLEAN :
         LET r == start_connection(Enter(conn), ok)
         IN  /\ conn' = mainloop_after_connect(r.c, r.ret)
             /\ last' = Last("start_connection", conn.status, r.ret, NoSize, NoFrame, ok, 0)
             /\ hist' = Record(hist, r.c.out)
             /\ UNCHANGED <<queue, lib, threads>>

\* the socket became readable
ReceivePacketWithin(max) ==
    /\ Open
    /\ Len(hist.sealed) < max
    /\ \E in \in Inputs(conn) :
         LET r == receive_packet(Enter(conn), in)
         IN  /\ conn' = mainloop_after_packet(r.c, r.ret)
             /\ last' = Last("receive_packet", conn.status, r.ret,
                             DeclaredSize(conn, in), in.f, in.ok, in.cf)
             /\ hist' = Record(hist, r.c.out)
             /\ UNCHANGED <<queue, lib, threads>>

ReceivePacket == ReceivePacketWithin(MaxSealed)

\* the application sends data
SendWithin(max) ==
    /\ conn.status = "connected"
    /\ Len(hist.sealed) < max
    /\ \E size \in DataSizes, o \in {<<TRUE, 0>>, <<FALSE, 0>>, <<TRUE, 1>>} :
         LET r == connection_send(Enter(conn), size, o[1], o[2])
         IN  /\ conn' = r.c
             /\ last' = Last("send", conn.status, r.ret, size, NoFrame, o[1], o[2])
             /\ hist' = Record(hist, r.c.out)
             /\ UNCHANGED <<queue, lib, threads>>

Send == SendWithin(MaxSealed)

Next ==
    \/ ConnectToGrid
    \/ ConnectToPeer
    \/ StartConnection
    \/ ReceivePacket
    \/ Send

Spec == Init /\ [][Next]_vars

\* the same connection, followed until its nonce counter wraps
LongReceivePacket == ReceivePacketWithin(MaxSealedLong)

LongSend == SendWithin(MaxSealedLong)

LongNext ==
    \/ ConnectToGrid
    \/ ConnectToPeer
    \/ StartConnection
    \/ LongReceivePacket
    \/ LongSend

LongSpec == Init /\ [][LongNext]_vars

---------------------------------------------------------------------------
(* The older client's life *)

\* the client connected its socket and opens the handshake
ClientConnect ==
    /\ last.op = "create"
    /\ \E ok \in BOOLEAN :
         LET r == client_sendTELL(Enter(conn), ok)
         IN  /\ conn' = mainloop_after_packet(
                           [r.c EXCEPT !.status = "handshaking"], r.ret)
             /\ last' = Last("sendTELL", conn.status, r.ret, NoSize, NoFrame, ok, 0)
             /\ hist' = Record(hist, r.c.out)
             /\ UNCHANGED <<queue, lib, threads>>

\* the socket became readable
ClientReceivePacket ==
    /\ Open
    /\ Len(hist.sealed) < MaxSealed
    /\ \E in \in ClientInputs(conn) :
         LET r == client_receive_packet(Enter(conn), in)
         IN  /\ conn' = mainloop_after_packet(r.c, r.ret)
             /\ last' = Last("receive_packet", conn.status, r.ret,
                             DeclaredSize(conn, in), in.f, in.ok, in.cf)
             /\ hist' = Record(hist, r.c.out)
             /\ UNCHANGED <<queue, lib, threads>>

\* the application sends a protobuf message
ClientSendMESG ==
    /\ Open
    /\ Len(hist.sealed) < MaxSealed
    /\ \E size \in DataSizes, o \in {<<TRUE, 0>>, <<FALSE, 0>>, <<TRUE, 1>>} :
         LET r == client_sendMESG(Enter(conn), "OTHER", size, o[1], o[2])
         IN  /\ conn' = mainloop_after_packet(r.c, r.ret)
             /\ last' = Last("sendMESG", conn.status, r.ret, size, NoFrame, o[1], o[2])
             /\ hist' = Record(hist, r.c.out)
             /\ UNCHANGED <<queue, lib, threads>>

ClientNext ==
    \/ ClientConnect
    \/ ClientReceivePacket
    \/ ClientSendMESG

ClientSpec == Init /\ [][ClientNext]_vars

\* the queue on its own
QueueSpec == Init /\ [][QueueNext]_vars

\* the library's setup and teardown, on either platform
LibraryInit ==
    /\ conn = NewConnection
    /\ last = Last("create", "closed", 0, NoSize, NoFrame, TRUE, 0)
    /\ hist = NoHistory
    /\ queue = EmptyQueue
    /\ lib \in {NewLibrary(p) : p \in Platforms}
    /\ threads = IdleThreads

LibrarySpec == LibraryInit /\ [][LibraryNext]_vars

\* several producers and one consumer on one queue
ThreadSpec == Init /\ [][ThreadNext]_vars

---------------------------------------------------------------------------
(* The happy paths: a server that follows its script, a socket that works *)

HoldFrame == [NoFrame EXCEPT !.b2 = "HOLD"]
ReplyFrame == [NoFrame EXCEPT !.b2 = "REPLY", !.decodes = TRUE, !.sig = TRUE]
CookFrame == [Magic("COOK") EXCEPT !.opens = TRUE]
RedyFrame == [Magic("REDY") EXCEPT !.opens = TRUE]
VersionFrame ==
    [Magic("MESG") EXCEPT !.opens = TRUE, !.mtype = "MSG_PROTOCOL_VERSION",
                          !.decodes = TRUE, !.pvMagic = TRUE, !.pvMajor = TRUE,
                          !.pvMinor = TRUE]

\* what the server sends, in order
ServerScript(mode) ==
    CASE mode = "peer" -> <<HoldFrame, ReplyFrame, Magic("WELC"), CookFrame, RedyFrame>>
      [] mode = "grid" -> <<Magic("WELC"), CookFrame, RedyFrame, VersionFrame>>
      [] OTHER -> <<>>

ScriptLeft == Len(hist.received) < Len(ServerScript(conn.mode))

NextFrame == ServerScript(conn.mode)[Len(hist.received) + 1]

\* the inputs of a call that meets no failure: at least one byte is there,
\* the length prefix announces a body that holds the script's next frame, and
\* a body that completes is that frame
HappyInputs(c) ==
    {in \in Inputs(c) :
        /\ ~in.err1 /\ ~in.err2 /\ in.ok /\ in.cf = 0
        /\ in.n1 >= 1
        /\ (InLengthPhase(c) /\ in.n1 = Wanted(c))
             => /\ ~exceeds_buffer(in.size)
                /\ NextFrame \in FramesOfSize(in.size)
        /\ in.f \in {NoFrame, NextFrame}}

Log(h, out, f) ==
    [Record(h, out) EXCEPT !.sent = @ \o out,
                           !.received = IF f = NoFrame THEN @ ELSE Append(@, f)]

\* the socket became writable and takes the first packet
HappyStart ==
    /\ conn.status = "connecting"
    /\ LET r == start_connection(Enter(conn), TRUE)
       IN  /\ conn' = mainloop_after_connect(r.c, r.ret)
           /\ last' = Last("start_connection", conn.status, r.ret, NoSize, NoFrame, TRUE, 0)
           /\ hist' = Log(hist, r.c.out, NoFrame)
    /\ UNCHANGED <<queue, lib, threads>>

\* the socket became readable with bytes of the script's next frame
HappyReceive ==
    /\ Open
    /\ ScriptLeft
    /\ \E in \in HappyInputs(conn) :
         LET r == receive_packet(Enter(conn), in)
         IN  /\ conn' = mainloop_after_packet(r.c, r.ret)
             /\ last' = Last("receive_packet", conn.status, r.ret,
                             DeclaredSize(conn, in), in.f, in.ok, in.cf)
             /\ hist' = Log(hist, r.c.out, in.f)
    /\ UNCHANGED <<queue, lib, threads>>

HappyNext ==
    \/ ConnectToGrid
    \/ ConnectToPeer
    \/ HappyStart
    \/ HappyReceive

\* the event loop calls back whenever the socket is writable or readable
HappySpec == Init /\ [][HappyNext]_vars /\ WF_vars(HappyNext)

---------------------------------------------------------------------------
(* Properties *)

\* the last operation was receive_packet and it handled a complete frame
HandledFrame == last.op = "receive_packet" /\ last.f # NoFrame

\* the frame reached the handler of the command cmd
Handled(cmd) == HandledFrame /\ last.f.magicOk /\ last.f.cmd = cmd

\* the frame was a MESG whose box opened on a MSG_PROTOCOL_VERSION that decoded
HandledVersion ==
    /\ Handled("MESG")
    /\ last.f.opens
    /\ last.f.mtype = "MSG_PROTOCOL_VERSION"
    /\ last.f.decodes

VersionMatches == last.f.pvMagic /\ last.f.pvMajor /\ last.f.pvMinor

\* the order of the statuses
Rank(status) ==
    CASE status = "closed" -> 0
      [] status = "connecting" -> 1
      [] status = "forwarding" -> 2
      [] status = "handshaking" -> 3
      [] status = "connected" -> 4
      [] OTHER -> 5

\* C1: every sealed packet of a connection carries a nonce strictly greater
\* than the nonce of every packet sealed before it, so that no two of them
\* share a (key, nonce) pair, also once the counter has wrapped
C1_NonceStrictlyIncreasing ==
    \A i, j \in DOMAIN hist.sealed :
        i < j =>
            /\ NonceTail(hist.sealed[i]) < NonceTail(hist.sealed[j])
            /\ ~(/\ hist.sealed[i].key = hist.sealed[j].key
                 /\ hist.sealed[i].nonce = hist.sealed[j].nonce)

\* C2: no operation moves the status to an earlier state of the order closed,
\* connecting, forwarding, handshaking, connected (failed is always allowed),
\* and a REDY frame sets connected only on a connection in handshaking
C2_StatusOnlyForward ==
    /\ conn.status = "failed" \/ Rank(last.from) <= Rank(conn.status)
    /\ (Handled("REDY") /\ conn.statusSets > 0 /\ conn.status = "connected")
           => last.from = "handshaking"

\* C3: a length prefix that declares size with size + 2 > bufferSize makes
\* receive_packet set buffer_exceeded and return -1 at once: receive_data is
\* not called for the body, bytesLeft is not set to the size, no crypto
\* operation runs and nothing is sent
C3_OversizeRejected ==
    (/\ last.op = "receive_packet"
     /\ last.size # NoSize
     /\ last.size + SizeofLength > BufferSize)
        => /\ last.ret = -1
           /\ conn.errorKind = "buffer_exceeded"
           /\ conn.status = "failed"
           /\ conn.reads = 1
           /\ conn.bytesLeft = 0
           /\ conn.bytesReceived = SizeofLength
           /\ conn.crypto = 0
           /\ conn.out = <<>>

C3_Witness ==
    /\ last.op = "receive_packet"
    /\ last.size = BufferSize - SizeofLength + 1
    /\ conn.errorKind = "buffer_exceeded"
    /\ conn.reads = 1

\* C4: in every state of the two-phase reader, whatever the partial reads
\* and the declared sizes, bytesLeft + bytesReceived <= bufferSize
C4_ReaderWithinBuffer == conn.bytesLeft + conn.bytesReceived <= BufferSize

C4_Witness ==
    /\ last.op = "receive_packet"
    /\ conn.bytesReceived > SizeofLength
    /\ conn.bytesLeft > 0
    /\ conn.bytesLeft + conn.bytesReceived = BufferSize

\* C5: start_connection hands exactly one packet to the socket: a
\* MSG_FORWARD_REMOTE envelope when the connection has a tunnel id, after
\* which the status is forwarding, and a TELL otherwise, after which the
\* status is handshaking
C5_OneInitialPacket ==
    [][(conn.status = "connecting" /\ last'.op = "start_connection")
          => /\ Len(conn'.out) = 1
             /\ IF conn.tunnelId
                THEN /\ conn.mode = "peer"
                     /\ conn'.out[1].cmd = "FORWARD_REMOTE"
                     /\ conn'.out[1].nonce = NoNonce
                     /\ last'.ret = 0 => conn'.status = "forwarding"
                ELSE /\ conn.mode = "grid"
                     /\ conn'.out[1].cmd = "TELL"
                     /\ conn'.out[1].nonce = NoNonce
                     /\ last'.ret = 0 => conn'.status = "handshaking"]_vars

C5_Witness ==
    /\ last.op = "start_connection"
    /\ conn.mode = "peer"
    /\ conn.out = <<Pkt("FORWARD_REMOTE", NoNonce, NoKey, "MSG_FORWARD_REMOTE", FALSE)>>
    /\ conn.status = "forwarding"

\* C6: on a peer connection in handshaking, a REDY frame that decrypts sets
\* the status to connected at once and sends no packet
C6_PeerReadyConnects ==
    (/\ Handled("REDY")
     /\ last.f.opens
     /\ conn.mode = "peer"
     /\ last.from = "handshaking")
        => /\ conn.status = "connected"
           /\ conn.statusSets = 1
           /\ conn.out = <<>>
           /\ last.ret = 0

C6_Witness ==
    /\ Handled("REDY")
    /\ last.f.opens
    /\ conn.mode = "peer"
    /\ last.from = "handshaking"
    /\ conn.status = "connected"
    /\ Len(hist.sealed) = 2

\* C7: on a grid connection a REDY frame that decrypts never sets the status
\* and sends at most one packet, which is, whenever the sealing succeeds, one
\* MESG of MSG_PROTOCOL_VERSION; a grid connection becomes connected only by
\* an inbound MESG of MSG_PROTOCOL_VERSION whose magic, major and minor match,
\* received in handshaking
C7_GridReadySendsVersion ==
    /\ (Handled("REDY") /\ last.f.opens /\ conn.mode = "grid")
          => /\ conn.statusSets = 0
             /\ conn.status = "connected" => last.from = "connected"
             /\ Len(conn.out) <= 1
             /\ \A i \in DOMAIN conn.out :
                    /\ conn.out[i].cmd = "MESG"
                    /\ conn.out[i].mtype = "MSG_PROTOCOL_VERSION"
             /\ last.cf = 0 => Len(conn.out) = 1
    /\ (conn.mode = "grid" /\ conn.status = "connected" /\ last.from # "connected")
          => /\ HandledVersion
             /\ VersionMatches
             /\ last.from = "handshaking"

C7_Witness ==
    /\ Handled("REDY")
    /\ last.f.opens
    /\ conn.mode = "grid"
    /\ last.from = "handshaking"
    /\ Len(conn.out) = 1
    /\ conn.out[1].mtype = "MSG_PROTOCOL_VERSION"
    /\ conn.status = "handshaking"

\* C8: an inbound MESG of MSG_PROTOCOL_VERSION that differs in magic, major
\* or minor sets protocol_error and returns a negative result, which fails
\* the connection
C8_VersionMismatchFails ==
    (HandledVersion /\ ~VersionMatches)
        => /\ conn.errorKind = "protocol_error"
           /\ last.ret < 0
           /\ conn.status = "failed"

\* C9: a MSG_FORWARD_ERROR envelope returns -1 and fails the connection with
\* server_error for FORWARD_SERVER_ERROR, peer_timeout for
\* FORWARD_PEER_TIMEOUT and protocol_error for any other code or an envelope
\* that does not decode; nothing is sent
C9_ForwardErrorFails ==
    (HandledFrame /\ last.f.b2 = "ERROR")
        => /\ last.ret = -1
           /\ conn.status = "failed"
           /\ conn.out = <<>>
           /\ conn.errorKind =
                 IF ~last.f.decodes THEN "protocol_error"
                 ELSE IF last.f.code = "FORWARD_SERVER_ERROR" THEN "server_error"
                 ELSE IF last.f.code = "FORWARD_PEER_TIMEOUT" THEN "peer_timeout"
                 ELSE "protocol_error"

C9_Witness ==
    /\ HandledFrame
    /\ last.f.b2 = "ERROR"
    /\ last.f.code = "FORWARD_SERVER_ERROR"
    /\ last.from = "forwarding"
    /\ conn.errorKind = "server_error"

\* C10: a MSG_FORWARD_REPLY whose signature matches sends exactly one TELL,
\* and from forwarding the connection is then in handshaking; one whose
\* signature differs, or that does not decode, sends nothing and returns -1
C10_ForwardReplyStartsHandshake ==
    (HandledFrame /\ last.f.b2 = "REPLY")
        => IF last.f.decodes /\ last.f.sig
           THEN /\ conn.out = <<Pkt("TELL", NoNonce, NoKey, "NONE", FALSE)>>
                /\ last.ok => last.ret = 0
                /\ (last.ok /\ last.from = "forwarding")
                       => conn.status = "handshaking"
           ELSE /\ conn.out = <<>>
                /\ last.ret = -1

C10_Witness ==
    /\ HandledFrame
    /\ last.f.b2 = "REPLY"
    /\ last.f.sig
    /\ last.from = "forwarding"
    /\ Len(conn.out) = 1
    /\ conn.status = "handshaking"

\* C11: a MSG_FORWARD_REPLY whose signature differs from the constant makes
\* receive_packet return failure with errorKind protocol_error
C11_SignatureMismatchIsProtocolError ==
    (HandledFrame /\ last.f.b2 = "REPLY" /\ last.f.decodes /\ ~last.f.sig)
        => /\ last.ret < 0
           /\ conn.errorKind = "protocol_error"

\* C12: whenever receive_packet returns a negative result, the connection's
\* errorKind is different from no_error
C12_FailureIsCaptured ==
    (last.op = "receive_packet" /\ last.ret < 0) => conn.errorKind # "no_error"

\* C13: an inbound MESG of a type the core does not handle changes no
\* status, sets no error kind, sends nothing and reaches no peer; only a MESG
\* of type MSG_PEER_REPLY is dispatched to a peer
C13_UnknownTypeIgnored ==
    [][(/\ last'.op = "receive_packet"
        /\ last'.f # NoFrame
        /\ last'.f.magicOk
        /\ last'.f.cmd = "MESG"
        /\ last'.f.opens)
          => /\ last'.f.mtype = "OTHER"
                  => /\ conn'.peerCalls = 0
                     /\ conn'.out = <<>>
                     /\ conn'.errorKind = conn.errorKind
                     /\ conn'.status = conn.status
             /\ conn'.peerCalls > 0 => last'.f.mtype = "MSG_PEER_REPLY"]_vars

\* C14 as claimed: a frame with the packet magic and a command other than
\* WELC, COOK, REDY and MESG sets protocol_error and fails the connection
C14_UnknownCommandIsProtocolError ==
    Handled("OTHER")
        => /\ conn.errorKind = "protocol_error"
           /\ conn.status = "failed"

\* C14 as amended: a frame with the packet magic and a command other than
\* WELC, COOK, REDY and MESG is ignored: receive_packet returns 0, the error
\* kind and the status stay as they were, no crypto operation runs and
\* nothing is sent
C14_UnknownCommandIgnored ==
    [][(/\ last'.op = "receive_packet"
        /\ last'.f # NoFrame
        /\ last'.f.magicOk
        /\ last'.f.cmd = "OTHER")
          => /\ last'.ret = 0
             /\ conn'.errorKind = conn.errorKind
             /\ conn'.status = conn.status
             /\ conn'.nonce = conn.nonce
             /\ conn'.crypto = 0
             /\ conn'.out = <<>>]_vars

C14_Witness ==
    /\ Handled("OTHER")
    /\ last.ret = 0
    /\ last.from = "handshaking"
    /\ conn.status = "handshaking"
    /\ conn.errorKind = "no_error"

\* C15: a COOK, REDY or MESG frame whose box does not open sets
\* decryption_error and returns -1 with no further effect: nothing is sent,
\* no nonce is consumed, the session key and the stored cookie stay as they
\* were and the status is not set
C15_DecryptionFailureHasNoEffect ==
    [][(/\ last'.op = "receive_packet"
        /\ last'.f # NoFrame
        /\ last'.f.magicOk
        /\ last'.f.cmd \in {"COOK", "REDY", "MESG"}
        /\ ~last'.f.opens)
          => /\ last'.ret = -1
             /\ conn'.errorKind = "decryption_error"
             /\ conn'.status = "failed"
             /\ conn'.statusSets = 0
             /\ conn'.out = <<>>
             /\ conn'.nonce = conn.nonce
             /\ conn'.beforenm = conn.beforenm
             /\ conn'.serverCookie = conn.serverCookie]_vars

C15_Witness ==
    /\ Handled("REDY")
    /\ ~last.f.opens
    /\ last.from = "handshaking"
    /\ conn.beforenm = 1
    /\ conn.errorKind = "decryption_error"

\* C16: the short-term keypair is written by the first WELC of a connection
\* and never again
C16_TempKeyCreatedOnce == conn.tempKey <= 1

\* C17: the first nonce-consuming packet of a connection (the HELO of a
\* handshake) carries nonce tail 1 and each later one carries the previous
\* nonce plus one, in 64-bit arithmetic: VOCH 2 and the first MESG 3 on the
\* grid happy path
C17_NoncesCountFromOne ==
    \A i \in DOMAIN hist.sealed :
        /\ NonceTail(hist.sealed[i]) = i % NonceModulus
        /\ i > 1 => NonceTail(hist.sealed[i])
                       = (NonceTail(hist.sealed[i - 1]) + 1) % NonceModulus

C17_Witness ==
    /\ conn.mode = "grid"
    /\ Len(hist.sealed) = 3
    /\ hist.sealed[1].cmd = "HELO" /\ NonceTail(hist.sealed[1]) = 1
    /\ hist.sealed[2].cmd = "VOCH" /\ NonceTail(hist.sealed[2]) = 2
    /\ hist.sealed[3].cmd = "MESG" /\ NonceTail(hist.sealed[3]) = 3

\* the MESG packets among the sealed packets of the connection, in send order
IsMESG(pkt) == pkt.cmd = "MESG"

\* C18 as claimed: the MESG packets sent on a connection carry the nonces
\* 1, 2, ..., N in send order
C18_MesgNoncesFromOne ==
    LET mesgs == SelectSeq(hist.sealed, IsMESG)
    IN  \A i \in DOMAIN mesgs : NonceTail(mesgs[i]) = i

\* C18 as amended: the MESG packets draw from the counter that HELO and VOCH
\* also consume: a MESG that is the k-th nonce-consuming packet of its
\* connection carries nonce k, and two MESG packets sent j packets apart
\* carry nonces j apart
C18_MesgNoncesContinue ==
    \A i \in DOMAIN hist.sealed :
        IsMESG(hist.sealed[i])
            => /\ NonceTail(hist.sealed[i])
                    = Len(SubSeq(hist.sealed, 1, i)) % NonceModulus
               /\ \A j \in DOMAIN hist.sealed :
                      (j < i /\ IsMESG(hist.sealed[j]))
                          => (NonceTail(hist.sealed[i]) - NonceTail(hist.sealed[j]))
                                 % NonceModulus = (i - j) % NonceModulus

C18_Witness ==
    /\ last.op = "send"
    /\ conn.status = "connected"
    /\ Len(hist.sealed) = 3
    /\ hist.sealed[1].cmd = "HELO"
    /\ hist.sealed[2].cmd = "VOCH"
    /\ IsMESG(hist.sealed[3])
    /\ NonceTail(hist.sealed[3]) = 3

\* C19: the status is set to connected, and its callback invoked, at most
\* once per connection: never on a connection that is already connected
C19_ConnectedSetOnce ==
    (conn.statusSets > 0 /\ conn.status = "connected") => last.from # "connected"

\* C20: queue_get returns the elements in the order they were put, returns
\* NULL when and only when nothing is queued, and once the last element is
\* taken the queue is in its initial state, the tail at the head slot
C20_QueueIsFifo ==
    /\ Len(queue.got) <= Len(queue.put)
    /\ \A i \in DOMAIN queue.got : queue.got[i] = queue.put[i]
    /\ queue.op = "get"
          => IF queue.ret = Null
             THEN Len(queue.got) = Len(queue.put)
             ELSE queue.ret = queue.put[Len(queue.got)]
    /\ queue.next[HeadSlot] = Null <=> Len(queue.got) = Len(queue.put)
    /\ Len(queue.got) = Len(queue.put)
          => queue.tail = HeadSlot

C20_Witness ==
    /\ queue.op = "get"
    /\ Len(queue.put) = 3
    /\ Len(queue.got) = 3
    /\ queue.got = queue.put
    /\ queue.ret = queue.put[3]
    /\ queue.put[3] = queue.put[1]
    /\ queue.tail = HeadSlot

\* C21: osdg_init returns no_error only if libsodium and the event loop both
\* initialised; a libsodium failure gives crypto_core_error without a call of
\* mainloop_events_init; an event-loop failure gives system_error with the
\* event initialisation undone; a failed osdg_init holds what was held before
C21_FailedInitHoldsNothing ==
    lib.op = "osdg_init" =>
        /\ lib.ret = "no_error" =>
               /\ lib.sodiumOk /\ lib.loopOk
               /\ lib.sodium = 1
               /\ lib.mainloop = lib.from.mainloop + 1
        /\ ~lib.sodiumOk =>
               /\ lib.ret = "crypto_core_error"
               /\ lib.eventInits = lib.from.eventInits
        /\ (lib.sodiumOk /\ lib.wsaOk /\ ~lib.loopOk) =>
               /\ lib.ret = "system_error"
               /\ lib.eventInits = lib.from.eventInits + 1
        /\ lib.ret # "no_error" =>
               /\ lib.wsa = lib.from.wsa
               /\ lib.events = lib.from.events
               /\ lib.mainloop = lib.from.mainloop

\* the event loop failed after the events had been initialised
C21_Witness ==
    /\ lib.op = "osdg_init"
    /\ lib.ret = "system_error"
    /\ lib.eventInits = lib.from.eventInits + 1
    /\ lib.events = lib.from.events
    /\ lib.platform = "win32"
    /\ lib.wsa = lib.from.wsa

\* the connection as it stood before the frame being read began to arrive
BeforeFrame(c) == [Enter(c) EXCEPT !.bytesLeft = 0, !.bytesReceived = 0]

\* C22: a MSG_FORWARD_HOLD envelope is ignored: receive_packet returns 0,
\* status, errorKind, the nonce counter and the keys stay as they were and
\* nothing is sent, and every MSG_FORWARD_REPLY that follows is handled as it
\* would have been had the HOLD not arrived
C22_HoldIsIgnored ==
    [][(/\ last'.op = "receive_packet"
        /\ last'.f # NoFrame
        /\ last'.f.b2 = "HOLD")
       => /\ last'.ret = 0
          /\ conn'.status = conn.status
          /\ conn'.errorKind = conn.errorKind
          /\ conn'.nonce = conn.nonce
          /\ conn'.tunnelId = conn.tunnelId
          /\ conn'.serverPubkey = conn.serverPubkey
          /\ conn'.tempKey = conn.tempKey
          /\ conn'.beforenm = conn.beforenm
          /\ conn'.serverCookie = conn.serverCookie
          /\ conn'.out = <<>>
          /\ conn'.crypto = 0
          /\ hist' = hist
          /\ \A in \in Inputs(conn') :
               in.f.b2 = "REPLY"
                 => LET after == receive_packet(Enter(conn'), in)
                        without == receive_packet(BeforeFrame(conn), in)
                    IN  /\ after.ret = without.ret
                        /\ mainloop_after_packet(after.c, after.ret)
                             = mainloop_after_packet(without.c, without.ret)]_vars

\* a HOLD was read while forwarding and the connection still forwards
C22_Witness ==
    /\ HandledFrame
    /\ last.f.b2 = "HOLD"
    /\ last.from = "forwarding"
    /\ last.size = 1
    /\ conn.status = "forwarding"
    /\ conn.tunnelId = FALSE

\* the bytes a key-value record takes: two lengths, the prefix and the value
RecordBytes(r) == 1 + Len(r.prefix) + 1 + Len(r.key)

\* C23: the VOCH sent in response to COOK carries the certificate record
\* (prefix length 11, "certificate", value length 32, 32 zero bytes) and
\* haveCertificate = 1 exactly in grid mode; in any other mode the record is
\* omitted, haveCertificate is 0, and the packet's length and its sealed
\* length are shorter by the size of the record
C23_CertificateOnlyToGrid ==
    \A i \in DOMAIN conn.out :
        conn.out[i].cmd = "VOCH"
          => LET v == conn.out[i]
             IN  /\ v.cert <=> conn.mode = "grid"
                 /\ conn.mode = "grid"
                      => /\ v.record.prefixLength = 11
                         /\ v.record.prefix
                              = <<"c", "e", "r", "t", "i", "f", "i", "c", "a", "t", "e">>
                         /\ v.record.keyLength = 32
                         /\ Len(v.record.key) = 32
                         /\ \A k \in 1 .. 32 : v.record.key[k] = 0
                         /\ v.length = SizeofPacketVOCH + RecordBytes(v.record)
                         /\ v.sealed = SizeofVouchOuter + RecordBytes(v.record)
                 /\ conn.mode # "grid"
                      => /\ v.record = NoRecord
                         /\ v.length = SizeofPacketVOCH
                         /\ v.sealed = SizeofVouchOuter

\* a peer connection answered COOK with a VOCH that has no certificate
C23_Witness ==
    /\ Handled("COOK")
    /\ conn.mode = "peer"
    /\ \E i \in DOMAIN conn.out :
         /\ conn.out[i].cmd = "VOCH"
         /\ ~conn.out[i].cert
         /\ conn.out[i].length = SizeofPacketVOCH

\* the packets a happy path sends, by mode
ExpectedSent(mode) ==
    CASE mode = "peer" -> <<"FORWARD_REMOTE", "TELL", "HELO", "VOCH">>
      [] mode = "grid" -> <<"TELL", "HELO", "VOCH", "MESG">>
      [] OTHER -> <<>>

\* how many of them are out once the connection started and the server's
\* first k frames were handled, at index k + 1
SentAfter(mode) ==
    CASE mode = "peer" -> <<1, 1, 2, 3, 4, 4>>
      [] mode = "grid" -> <<1, 2, 3, 4, 4>>
      [] OTHER -> <<0>>

HappyOrder ==
    LET n == Len(hist.sent)
    IN  /\ n <= Len(ExpectedSent(conn.mode))
        /\ \A i \in 1 .. n : hist.sent[i].cmd = ExpectedSent(conn.mode)[i]
        /\ \A i \in 1 .. n :
             hist.sent[i].cmd = "MESG" => hist.sent[i].mtype = "MSG_PROTOCOL_VERSION"
        /\ n = IF conn.status \in {"closed", "connecting"} THEN 0
               ELSE SentAfter(conn.mode)[Len(hist.received) + 1]

\* C24: on the peer happy path the client sends exactly FORWARD_REMOTE, TELL,
\* HELO, VOCH in that order, each only after the inbound frame that triggers
\* it, and the connection eventually is connected; on the grid happy path it
\* sends TELL, HELO, VOCH, MESG(MSG_PROTOCOL_VERSION) in that order
C24_HappyPathOrder ==
    /\ []HappyOrder
    /\ (conn.mode = "peer") ~> (conn.status = "connected")

\* the peer happy path ran to its end
C24_Witness ==
    /\ conn.mode = "peer"
    /\ conn.status = "connected"
    /\ Len(hist.received) = 5
    /\ Len(hist.sent) = 4
    /\ hist.sent[4].cmd = "VOCH"

\* the operation sent a MSG_FORWARD_REMOTE
RemoteSent(c) == \E i \in DOMAIN c.out : c.out[i].cmd = "FORWARD_REMOTE"

\* C25: sendForward consumes the tunnel id: a step sends MSG_FORWARD_REMOTE
\* only from a connection that holds a tunnel id and leaves it without one,
\* a connection that started never regains one, so MSG_FORWARD_REMOTE is
\* sent at most once, and start_connection on the connection left behind
\* sends TELL and nothing else
C25_TunnelIdConsumed ==
    [][/\ RemoteSent(conn')
            => /\ last'.op = "start_connection"
               /\ conn.tunnelId
               /\ ~conn'.tunnelId
               /\ \A ok \in BOOLEAN :
                    LET r == start_connection(Enter(conn'), ok)
                    IN  /\ Len(r.c.out) = 1
                        /\ r.c.out[1].cmd = "TELL"
       /\ (~conn.tunnelId /\ last.op # "create") => ~conn'.tunnelId]_vars

\* the MSG_FORWARD_REMOTE could not be sent, and the tunnel id is gone
C25_Witness ==
    /\ last.op = "start_connection"
    /\ RemoteSent(conn)
    /\ ~last.ok
    /\ conn.status = "failed"
    /\ ~conn.tunnelId

\* the last operation failed in sealing an outbound box: the HELO box, the
\* inner or the outer box of VOCH, or the box of a MESG
SealingFailed ==
    /\ last.ret < 0
    /\ \/ Handled("WELC") /\ last.cf = 1
       \/ Handled("COOK") /\ last.f.opens /\ last.cf \in {2, 3}
       \/ Handled("REDY") /\ last.f.opens /\ conn.mode = "grid" /\ last.cf = 1
       \/ last.op \in {"send", "sendMESG"} /\ last.cf = 1
            /\ last.size + SizeofPacketMESG <= BufferSize

\* C26: a failure while sealing an outbound box is reported with error kind
\* encryption_error
C26_SealingFailureIsEncryptionError ==
    SealingFailed => conn.errorKind = "encryption_error"

\* C27: send buffers are balanced: every buffer a protocol operation took
\* with client_get_buffer is back by the time the operation returns, so no
\* buffer is outstanding between operations
C27_BuffersBalanced == conn.buffers = 0

\* C28: a connection is connected only after a WELC and then a COOK were
\* processed on it, the session key computed from that COOK; a REDY or MESG
\* that arrives before is not accepted
C28_ConnectedOnlyWithSessionKey ==
    /\ conn.status = "connected"
         => /\ conn.serverPubkey = 1
            /\ conn.tempKey >= 1
            /\ conn.beforenm >= 1
    /\ ((Handled("REDY") \/ Handled("MESG")) /\ conn.beforenm = 0)
         => last.ret < 0

\* C29: the forwarding envelopes are acted on only while forwarding: a frame
\* handled after the TELL was sent causes no second TELL, is not dropped as
\* a HOLD and sets no forwarding error kind
C29_EnvelopesOnlyWhileForwarding ==
    (HandledFrame /\ last.from \in {"handshaking", "connected"})
        => /\ \A i \in DOMAIN conn.out : conn.out[i].cmd # "TELL"
           /\ ~(last.f.b2 = "HOLD" /\ last.ret = 0)
           /\ ~(last.f.b2 = "ERROR"
                /\ conn.errorKind \in {"server_error", "peer_timeout"})

\* the elements linked from the address a, at most n of them
RECURSIVE Chain(_, _, _)
Chain(q, a, n) ==
    IF n = 0 \/ q.next[a] = Null THEN <<>>
    ELSE <<q.next[a]>> \o Chain(q, q.next[a], n - 1)

\* the index of the call of queue_put that passed the element e
CallIndex(e) == CHOOSE i \in DOMAIN threads.calls : threads.calls[i][2] = e

\* C30: under every interleaving of the producers' queue_put and the
\* consumer's queue_get every element put is returned at most once and in
\* put order, one producer's elements in the order of its calls; whenever the
\* mutex is free the elements put and not yet returned are exactly the linked
\* ones, and the tail is the last of them or the head slot if there is none
C30_ThreadedQueueLosesNothing ==
    /\ Len(queue.got) <= Len(queue.put)
    /\ \A i \in DOMAIN queue.got : queue.got[i] = queue.put[i]
    /\ \A i, j \in DOMAIN queue.got :
         (i < j /\ threads.calls[CallIndex(queue.got[i])][1]
                     = threads.calls[CallIndex(queue.got[j])][1])
           => CallIndex(queue.got[i]) < CallIndex(queue.got[j])
    /\ threads.owner = NoThread
         => LET linked == Chain(queue, HeadSlot, MaxElements + 1)
            IN  /\ linked = SubSeq(queue.put, Len(queue.got) + 1, Len(queue.put))
                /\ queue.tail = IF linked = <<>> THEN HeadSlot
                                ELSE linked[Len(linked)]

\* two producers put three elements between them and the consumer has them all
C30_Witness ==
    /\ threads.owner = NoThread
    /\ Len(queue.got) = 3
    /\ queue.got = queue.put
    /\ \E i, j \in DOMAIN threads.calls : threads.calls[i][1] # threads.calls[j][1]
    /\ queue.tail = HeadSlot

\* line 429: the packet that holds dataSize bytes does not fit a send buffer
Oversize(dataSize) == SizeofPacketMESG + dataSize > BufferSize

\* the connection with the error kind of the rejection and nothing else changed
Rejected(c) == [c EXCEPT !.errorKind = "buffer_exceeded"]

\* C31: an outbound message that does not fit a send buffer is rejected with
\* buffer_exceeded and nothing else: no buffer is taken, no nonce consumed,
\* nothing handed to send_data, the status unchanged; in every state, for
\* get_MESG_packet, sendMESG and the older client's sendMESG, and for the
\* send the application made last
C31_OversizeSendHasNoEffect ==
    /\ \A size \in 0 .. BufferSize + 1 :
         /\ Oversize(size)
              => get_MESG_packet(Enter(conn), size)
                   = [c |-> Rejected(Enter(conn)), mesg |-> FALSE]
         /\ \A ok \in BOOLEAN, cf \in {0, 1} :
              /\ Oversize(size + 1)
                   => sendMESG(Enter(conn), "MSG_PROTOCOL_VERSION", size, ok, cf)
                        = Res(Rejected(Enter(conn)), "buffer_exceeded")
              /\ Oversize(size)
                   => client_sendMESG(Enter(conn), "OTHER", size, ok, cf)
                        = Res(Rejected(Enter(conn)), -1)
    /\ (last.op = "send" /\ Oversize(last.size))
         => /\ last.ret < 0
            /\ conn.errorKind = "buffer_exceeded"
            /\ conn.out = <<>>
            /\ conn.crypto = 0
            /\ conn.status = last.from

\* the application sent a message one byte too long on a connection that
\* had sealed packets before
C31_Witness ==
    /\ last.op = "send"
    /\ last.size = BufferSize - SizeofPacketMESG + 1
    /\ last.ret < 0
    /\ conn.errorKind = "buffer_exceeded"
    /\ conn.status = "connected"
    /\ conn.nonce > 1
    /\ conn.out = <<>>

====
